---- MODULE Spec2Model ----
(***************************************************************************)
(* Crows_Nest: the wallet ranking pipeline.                                *)
(*                                                                         *)
(*   wallet_holdings_analyzer.py  WalletAnalyzer (scoring, holdings fetch) *)
(*                                and main (the snapshot builder)          *)
(*   wallet_score_manager.py      update_scores (the ledger reconciler)    *)
(*   run_analysis.py              the two stages in sequence               *)
(*   config.py                    the four thresholds                      *)
(*                                                                         *)
(* Python floats are modelled as exact rationals [n, d] in lowest terms    *)
(* with d > 0, so that equal values are equal records.  An optional value  *)
(* (a return of None, a missing file) is a record with a flag, so that     *)
(* every variable keeps one shape.                                         *)
(***************************************************************************)
EXTENDS Integers, Sequences, FiniteSets, TLC

VARIABLES
    \* calculate_trading_score, called on one record
    trader_data,          \* the argument
    metrics,              \* the return value: <<>> is None, <<m>> is TraderMetrics m
    score_locals,         \* the locals at the return: <<>> or <<[efficiency_score, pnl_score, activity_score]>>
    scorer_pc,            \* "call" | "returned"
    \* the filter / sort / format block of get_wallet_holdings, on one response
    holdings,             \* data["data"]["items"]
    significant_holdings, \* the local list after filter and sort
    formatted_holdings,   \* the list the block builds
    fmt_pc,
    \* WalletAnalyzer and one call of get_wallet_holdings
    chain,                \* upstream: wallet -> its token list (what a 200/success body carries)
    holdings_cache,       \* self.holdings_cache
    backoff_time,         \* self.backoff_time, in milliseconds
    gw_pc,                \* "idle" | "loop" | "done"
    gw_wallet,            \* the argument
    retry_count,          \* the local counter
    gw_ret,               \* the return value
    calls,                \* calls made so far by the caller
    response,             \* the local of the running call: what the latest requests.get gave
    requests,             \* requests.get calls of the logical request in progress
    rate_limited,         \* of these, the ones answered 429
    slept,                \* the time.sleep of the handler of the latest attempt, in milliseconds
    since_reset,          \* 429 responses since __init__ or the latest _reset_backoff
    \* one call of get_top_traders; retry_count, response, requests, rate_limited
    \* and slept above are those of whichever call is running
    gt_pc,                \* "idle" | "loop" | "between" | "done" | "returned"
    offset,               \* the variable of the for loop
    pages,                \* page number -> the batch the upstream gave for it in this call
    page_status,          \* page number -> "pending" | "fetched" | "failed"
    \* wallet_holdings_analyzer.main
    main_pc,              \* "start" | "process" | "holdings" | "done"
    traders,              \* what get_top_traders returned
    processed_traders,
    idx,                  \* position of the holdings loop (line 250)
    \* files
    snapshot,             \* output/wallet_holdings.csv
    ledger,               \* historical/all_wallets.csv
    crystalized,          \* output/crystalized_wallets.csv
    \* wallet_score_manager.update_scores
    today,                \* the date of the latest pass, as a day number
    runs,                 \* passes so far
    upd_result,           \* how the latest pass ended
    significant_changes   \* the list the latest pass printed

scorerVars == <<trader_data, metrics, score_locals, scorer_pc>>
formatVars == <<holdings, significant_holdings, formatted_holdings, fmt_pc>>
holdVars   == <<chain, holdings_cache, backoff_time, gw_pc, gw_wallet, retry_count, gw_ret, calls,
                response, requests, rate_limited, slept, since_reset>>
traderVars == <<gt_pc, offset, pages, page_status>>
mainVars   == <<main_pc, traders, processed_traders, idx>>
ledgerVars == <<ledger, crystalized, today, runs, upd_result, significant_changes>>
vars == <<scorerVars, formatVars, holdVars, traderVars, mainVars, snapshot, ledgerVars>>

(***************************************************************************)
(* config.py                                                               *)
(***************************************************************************)
BOT_TRANSACTION_THRESHOLD == 350
SIGNIFICANT_HOLDING_THRESHOLD == 9000
MIN_SIGNIFICANT_HOLDINGS == 2

(***************************************************************************)
(* Bounds of the model.                                                    *)
(***************************************************************************)
\* longest trader list get_top_traders returns
MaxTraders == 3
\* longest token list of one wallet
MaxItems == 3
\* calls of get_wallet_holdings by a caller that repeats wallets
MaxCalls == 2
\* reconciliation passes
MaxRuns == 3
\* pages get_top_traders asks for: its limit is PageSize * MaxPages
MaxPages == 3

(***************************************************************************)
(* Float arithmetic, exact.                                                *)
(***************************************************************************)
Abs(x) == IF x < 0 THEN -x ELSE x

RECURSIVE GCD(_, _)
GCD(a, b) == IF b = 0 THEN a ELSE GCD(b, a % b)

\* n / d in lowest terms, d # 0
Rat(n, d) ==
    LET g == GCD(Abs(n), Abs(d))
        s == IF d < 0 THEN -1 ELSE 1
    IN  [n |-> (s * n) \div g, d |-> (s * d) \div g]

RInt(k) == [n |-> k, d |-> 1]

RAdd(a, b) == Rat(a.n * b.d + b.n * a.d, a.d * b.d)

RSub(a, b) == Rat(a.n * b.d - b.n * a.d, a.d * b.d)

\* cancels across before multiplying, to keep the products small
RMul(a, b) ==
    LET g1 == GCD(Abs(a.n), b.d)
        g2 == GCD(Abs(b.n), a.d)
    IN  IF a.n = 0 \/ b.n = 0 THEN RInt(0)
        ELSE [n |-> (a.n \div g1) * (b.n \div g2), d |-> (a.d \div g2) * (b.d \div g1)]

RDiv(a, b) == RMul(a, Rat(b.d, b.n))

RLe(a, b) == a.n * b.d <= b.n * a.d

RLt(a, b) == a.n * b.d < b.n * a.d

\* Python's min(a, b) and max(a, b)
RMin(a, b) == IF RLt(b, a) THEN b ELSE a

RMax(a, b) == IF RLt(a, b) THEN b ELSE a

RAbs(a) == [n |-> Abs(a.n), d |-> a.d]

(***************************************************************************)
(* WalletAnalyzer.calculate_trading_score                                  *)
(***************************************************************************)
\* the bot / inactive test of line 196
IsRejected_OffByOne(trade_count) ==
    trade_count >= BOT_TRANSACTION_THRESHOLD \/ trade_count = 0

IsRejected(trade_count) ==
    trade_count > BOT_TRANSACTION_THRESHOLD \/ trade_count = 0

efficiency_score_of(td) ==
    IF td.volume > 0
    THEN RMin(RInt(100), RMul(Rat(td.pnl, td.volume), RInt(200)))
    ELSE RInt(0)

pnl_score_of(td) == RMin(RInt(100), Rat(td.pnl, 100000))

profit_per_trade_of(td) == Rat(td.pnl, td.trade_count)

activity_score_of(td) ==
    RMin(RInt(100),
         RMax(RInt(0),
              RMul(RDiv(RSub(profit_per_trade_of(td), RInt(1000)), RInt(19000)),
                   RInt(100))))

trading_score_of(td) ==
    RAdd(RAdd(RMul(efficiency_score_of(td), Rat(33, 100)),
              RMul(pnl_score_of(td), Rat(33, 100))),
         RMul(activity_score_of(td), Rat(34, 100)))

\* top_holdings: None, or a list
NoneValue == [is_none |-> TRUE, items |-> <<>>]

ListValue(s) == [is_none |-> FALSE, items |-> s]

\* the return value: <<>> for None, <<TraderMetrics>> otherwise
calculate_trading_score(td) ==
    IF IsRejected(td.trade_count)
    THEN <<>>
    ELSE << [address          |-> td.address,
             pnl              |-> td.pnl,
             volume           |-> td.volume,
             trade_count      |-> td.trade_count,
             efficiency_score |-> efficiency_score_of(td),
             trading_score    |-> trading_score_of(td),
             top_holdings     |-> NoneValue] >>

\* the locals at the return, for the records that are scored
calculate_trading_score_locals(td) ==
    IF IsRejected(td.trade_count)
    THEN <<>>
    ELSE << [efficiency_score |-> efficiency_score_of(td),
             pnl_score        |-> pnl_score_of(td),
             activity_score   |-> activity_score_of(td)] >>

(***************************************************************************)
(* WalletAnalyzer.__init__                                                 *)
(***************************************************************************)
\* one attempt more than line 43 allows
max_retries_OneMore == 3 + 1

\* 0.5 s, in milliseconds
min_call_interval == 500
max_retries == 3

(***************************************************************************)
(* WalletAnalyzer.get_wallet_holdings: the filter, sort and format block   *)
(***************************************************************************)
\* the list comprehension's test, lines 152-155; a missing symbol or
\* valueUsd reads as "" or 0
IsSignificant_NoExclusion(h) ==
    /\ h.valueUsd >= SIGNIFICANT_HOLDING_THRESHOLD
    /\ h.symbol # ""
    /\ h.valueUsd # 0

IsSignificant(h) ==
    /\ h.valueUsd >= SIGNIFICANT_HOLDING_THRESHOLD
    /\ h.symbol # ""
    /\ h.valueUsd # 0
    /\ h.symbol \notin {"USDC", "SOL"}

FilterSignificant(hs) == SelectSeq(hs, IsSignificant)

\* list.sort(key=valueUsd, reverse=True): descending, and stable, so x goes
\* behind every element whose key is at least its own
RECURSIVE InsertByValue(_, _)
InsertByValue(sorted, x) ==
    IF sorted = <<>> THEN <<x>>
    ELSE IF Head(sorted).valueUsd >= x.valueUsd
         THEN <<Head(sorted)>> \o InsertByValue(Tail(sorted), x)
         ELSE <<x>> \o sorted

RECURSIVE SortByValue(_)
SortByValue(hs) ==
    IF hs = <<>> THEN <<>>
    ELSE InsertByValue(SortByValue(SubSeq(hs, 1, Len(hs) - 1)), hs[Len(hs)])

\* f"{symbol} {valueUsd / 1_000_000:.2f}m": the display string is the symbol
\* and the value in hundredths of a million, rounded to the nearest (the
\* token values of the model are never halfway between two hundredths)
FormatHolding(h) ==
    [symbol |-> h.symbol, hundredths |-> (h.valueUsd + 5000) \div 10000]

FormatHoldings(hs) == [k \in 1..Len(hs) |-> FormatHolding(hs[k])]

(***************************************************************************)
(* The block on one response, from bounded token lists.                    *)
(***************************************************************************)
Holding(sym, v) == [symbol |-> sym, valueUsd |-> v]

HoldingPool ==
    { Holding("XYZ", 15000000), Holding("ABC", 9000), Holding("DEF", 8999),
      Holding("SOL", 20000), Holding("USDC", 50000), Holding("", 10000000),
      Holding("QRS", 9000) }

RECURSIVE SeqsUpTo(_, _)
SeqsUpTo(S, n) ==
    IF n = 0 THEN {<<>>}
    ELSE LET shorter == SeqsUpTo(S, n - 1)
         IN  shorter \cup {Append(s, x) : s \in {t \in shorter : Len(t) = n - 1}, x \in S}

HoldingLists == SeqsUpTo(HoldingPool, MaxItems)

FormatBlock ==
    /\ fmt_pc = "response"
    /\ significant_holdings' = SortByValue(FilterSignificant(holdings))
    /\ formatted_holdings' = FormatHoldings(significant_holdings')
    /\ fmt_pc' = "formatted"
    /\ UNCHANGED holdings

(***************************************************************************)
(* WalletAnalyzer.get_wallet_holdings, one HTTP attempt per step.  The     *)
(* upstream answers each attempt as it likes; the token list of a wallet   *)
(* is read at most once in a run (a success is cached), so it is fixed     *)
(* per wallet in `chain`.                                                  *)
(***************************************************************************)
Wallets == {"A", "B"}

\* line 55 with a ceiling of four times the minimum
_handle_rate_limit_Capped(b) == IF 2 * b > 2000 THEN 2000 ELSE 2 * b

\* line 55: self.backoff_time *= 2
_handle_rate_limit(b) == 2 * b

\* what requests.get gave: an exception (no response), or a response with
\* its status code and the "success" of its body
NoResponse == [raised |-> FALSE, status_code |-> 0, success |-> FALSE]

Raised == [raised |-> TRUE, status_code |-> 0, success |-> FALSE]

Response(status_code, success) == [raised |-> FALSE, status_code |-> status_code, success |-> success]

\* statuses other than 200 and 429 the upstream answers with
ErrorStatuses == {404, 500}

\* a logical request begins: nothing was sent for it yet
NoAttemptYet ==
    /\ response' = NoResponse
    /\ requests' = 0
    /\ rate_limited' = 0
    /\ slept' = 0

\* one requests.get, its outcome r, and the sleep of the branch that handles it
Attempt(r, sleep) ==
    /\ response' = r
    /\ requests' = requests + 1
    /\ rate_limited' = rate_limited + (IF r.status_code = 429 THEN 1 ELSE 0)
    /\ slept' = sleep

\* lines 116-119 without the cache check
get_wallet_holdings_call_NoCache(w) ==
    /\ gw_pc = "idle"
    /\ gw_wallet' = w
    /\ gw_ret' = NoneValue
    /\ gw_pc' = "loop"
    /\ retry_count' = 0
    /\ NoAttemptYet
    /\ UNCHANGED <<chain, holdings_cache, backoff_time, since_reset>>

\* lines 116-119: the cache check, then the loop is entered
get_wallet_holdings_call(w) ==
    /\ gw_pc = "idle"
    /\ gw_wallet' = w
    /\ IF w \in DOMAIN holdings_cache
       THEN /\ gw_ret' = ListValue(holdings_cache[w])
            /\ gw_pc' = "done"
       ELSE /\ gw_ret' = NoneValue
            /\ gw_pc' = "loop"
    /\ retry_count' = 0
    /\ NoAttemptYet
    /\ UNCHANGED <<chain, holdings_cache, backoff_time, since_reset>>

\* retry_count += 1, then the loop test of line 120 and the return of 186-188
RetryOrGiveUp ==
    /\ retry_count' = retry_count + 1
    /\ IF retry_count + 1 < max_retries
       THEN gw_pc' = "loop" /\ gw_ret' = gw_ret
       ELSE gw_pc' = "done" /\ gw_ret' = ListValue(<<>>)

\* lines 129-132: HTTP 429
HoldingsRateLimited ==
    /\ gw_pc = "loop"
    /\ backoff_time' = _handle_rate_limit(backoff_time)
    /\ since_reset' = since_reset + 1
    /\ Attempt(Response(429, FALSE), backoff_time')
    /\ RetryOrGiveUp
    /\ UNCHANGED <<chain, holdings_cache, gw_wallet, calls>>

\* lines 173-184: a timeout, a request error, any other exception
HoldingsException ==
    /\ gw_pc = "loop"
    /\ Attempt(Raised, 1000)
    /\ RetryOrGiveUp
    /\ UNCHANGED <<chain, holdings_cache, backoff_time, since_reset, gw_wallet, calls>>

\* the function's end after a break: retry_count < max_retries, so the
\* test of line 186 fails and the function falls off its end
ReturnAfterBreak == NoneValue

\* lines 134-136: a status that is neither 200 nor 429
HoldingsStatusError ==
    /\ gw_pc = "loop"
    /\ \E status_code \in ErrorStatuses : Attempt(Response(status_code, FALSE), 0)
    /\ gw_pc' = "done"
    /\ gw_ret' = ReturnAfterBreak
    /\ UNCHANGED <<chain, holdings_cache, backoff_time, since_reset, gw_wallet, retry_count, calls>>

\* lines 138-141: a 200 whose body has no true "success"
HoldingsSuccessFalse ==
    /\ gw_pc = "loop"
    /\ Attempt(Response(200, FALSE), 0)
    /\ gw_pc' = "done"
    /\ gw_ret' = ReturnAfterBreak
    /\ UNCHANGED <<chain, holdings_cache, backoff_time, since_reset, gw_wallet, retry_count, calls>>

\* lines 144-171: a 200 with success true
HoldingsSuccess ==
    /\ gw_pc = "loop"
    /\ Attempt(Response(200, TRUE), 0)
    /\ LET items == chain[gw_wallet]
           formatted == FormatHoldings(SortByValue(FilterSignificant(items)))
       IN  IF items = <<>>
           THEN /\ holdings_cache' = (gw_wallet :> <<>>) @@ holdings_cache
                /\ gw_ret' = ListValue(<<>>)
                /\ UNCHANGED <<backoff_time, since_reset>>
           ELSE /\ holdings_cache' = (gw_wallet :> formatted) @@ holdings_cache
                /\ backoff_time' = min_call_interval
                /\ since_reset' = 0
                /\ gw_ret' = ListValue(formatted)
    /\ gw_pc' = "done"
    /\ UNCHANGED <<chain, gw_wallet, retry_count, calls>>

get_wallet_holdings_attempt ==
    \/ HoldingsRateLimited
    \/ HoldingsException
    \/ HoldingsStatusError
    \/ HoldingsSuccessFalse
    \/ HoldingsSuccess

\* a caller that asks for any wallet, again and again
CallerAsks ==
    /\ calls < MaxCalls
    /\ \E w \in Wallets : get_wallet_holdings_call(w)
    /\ calls' = calls + 1

CallerTakesResult ==
    /\ gw_pc = "done"
    /\ gw_pc' = "idle"
    /\ NoAttemptYet
    /\ UNCHANGED <<chain, holdings_cache, backoff_time, since_reset, gw_wallet, retry_count, gw_ret, calls>>

\* token lists of the wallets: none, one significant, two significant out of order
WalletLists ==
    { <<>>,
      <<Holding("SOL", 20000), Holding("XYZ", 15000000)>>,
      <<Holding("ABC", 9000), Holding("DEF", 8999), Holding("XYZ", 15000000)>> }

Chains == [Wallets -> WalletLists]

(***************************************************************************)
(* The values of the parts of the program a specification leaves alone.    *)
(***************************************************************************)
NoFile == [exists |-> FALSE, rows |-> <<>>]

File(rows) == [exists |-> TRUE, rows |-> rows]

EmptyCache == [w \in {} |-> <<>>]

ScorerIdle ==
    /\ trader_data = [address |-> "", pnl |-> 0, volume |-> 0, trade_count |-> 0]
    /\ metrics = <<>>
    /\ score_locals = <<>>
    /\ scorer_pc = "idle"

FormatIdle ==
    /\ holdings = <<>>
    /\ significant_holdings = <<>>
    /\ formatted_holdings = <<>>
    /\ fmt_pc = "idle"

\* WalletAnalyzer.__init__, and no call in progress
AnalyzerInit ==
    /\ holdings_cache = EmptyCache
    /\ backoff_time = min_call_interval
    /\ since_reset = 0
    /\ gw_pc = "idle"
    /\ gw_wallet = ""
    /\ retry_count = 0
    /\ gw_ret = NoneValue
    /\ calls = 0
    /\ response = NoResponse
    /\ requests = 0
    /\ rate_limited = 0
    /\ slept = 0

\* page size of the trader-list endpoint (lines 68 and 76)
PageSize == 10

PageNumbers == 1..MaxPages

\* no call of get_top_traders in progress
TradersIdle ==
    /\ gt_pc = "idle"
    /\ offset = 0
    /\ pages = [n \in PageNumbers |-> <<>>]
    /\ page_status = [n \in PageNumbers |-> "pending"]

MainIdle ==
    /\ main_pc = "idle"
    /\ traders = <<>>
    /\ processed_traders = <<>>
    /\ idx = 0

\* before the first run: no file written yet
LedgerInit ==
    /\ ledger = NoFile
    /\ crystalized = NoFile
    /\ today = 0
    /\ runs = 0
    /\ upd_result = "none"
    /\ significant_changes = <<>>

(***************************************************************************)
(* calculate_trading_score on one upstream record.                         *)
(***************************************************************************)
PnlValues == {-2000000, -50000, 0, 20000, 2000000, 20000000}

VolumeValues == {0, 100000, 10000000}

TradeCounts == {0, 1, 7, BOT_TRANSACTION_THRESHOLD, BOT_TRANSACTION_THRESHOLD + 1}

TraderInputs ==
    [address : {"A"}, pnl : PnlValues, volume : VolumeValues, trade_count : TradeCounts]

InitScorer ==
    /\ trader_data \in TraderInputs
    /\ metrics = <<>>
    /\ score_locals = <<>>
    /\ scorer_pc = "call"
    /\ FormatIdle /\ chain \in {[w \in Wallets |-> <<>>]} /\ AnalyzerInit /\ MainIdle
    /\ TradersIdle
    /\ snapshot = NoFile /\ LedgerInit

ScoreTrader ==
    /\ scorer_pc = "call"
    /\ metrics' = calculate_trading_score(trader_data)
    /\ score_locals' = calculate_trading_score_locals(trader_data)
    /\ scorer_pc' = "returned"
    /\ UNCHANGED <<trader_data, formatVars, holdVars, traderVars, mainVars, snapshot, ledgerVars>>

NextScorer == ScoreTrader

SpecScorer == InitScorer /\ [][NextScorer]_vars

(***************************************************************************)
(* The filter / sort / format block on one response body.                  *)
(***************************************************************************)
InitFormat ==
    /\ holdings \in HoldingLists
    /\ significant_holdings = <<>>
    /\ formatted_holdings = <<>>
    /\ fmt_pc = "response"
    /\ ScorerIdle /\ chain \in {[w \in Wallets |-> <<>>]} /\ AnalyzerInit /\ MainIdle
    /\ TradersIdle
    /\ snapshot = NoFile /\ LedgerInit

NextFormat ==
    FormatBlock /\ UNCHANGED <<scorerVars, holdVars, traderVars, mainVars, snapshot, ledgerVars>>

SpecFormat == InitFormat /\ [][NextFormat]_vars

(***************************************************************************)
(* get_wallet_holdings under a caller that repeats wallets.                *)
(***************************************************************************)
InitHoldings ==
    /\ chain \in Chains
    /\ AnalyzerInit
    /\ ScorerIdle /\ FormatIdle /\ MainIdle
    /\ TradersIdle
    /\ snapshot = NoFile /\ LedgerInit

holdingsFrame == <<scorerVars, formatVars, traderVars, mainVars, snapshot, ledgerVars>>

NextHoldings ==
    \/ CallerAsks /\ UNCHANGED holdingsFrame
    \/ HoldingsRateLimited /\ UNCHANGED holdingsFrame
    \/ HoldingsException /\ UNCHANGED holdingsFrame
    \/ HoldingsStatusError /\ UNCHANGED holdingsFrame
    \/ HoldingsSuccessFalse /\ UNCHANGED holdingsFrame
    \/ HoldingsSuccess /\ UNCHANGED holdingsFrame
    \/ CallerTakesResult /\ UNCHANGED holdingsFrame

SpecHoldings == InitHoldings /\ [][NextHoldings]_vars

(***************************************************************************)
(* wallet_holdings_analyzer.main                                           *)
(***************************************************************************)
\* lines 236-242 without the seen_addresses test
RECURSIVE ProcessLoop_NoSeenTest(_, _, _)
ProcessLoop_NoSeenTest(ts, seen_addresses, acc) ==
    IF ts = <<>> THEN acc
    ELSE LET m == calculate_trading_score(Head(ts))
         IN  IF m # <<>>
             THEN ProcessLoop_NoSeenTest(Tail(ts), seen_addresses, Append(acc, m[1]))
             ELSE ProcessLoop_NoSeenTest(Tail(ts), seen_addresses, acc)

DedupeTraders_NoSeenTest(ts) == ProcessLoop_NoSeenTest(ts, {}, <<>>)

\* lines 236-242: the loop over traders
RECURSIVE ProcessLoop(_, _, _)
ProcessLoop(ts, seen_addresses, acc) ==
    IF ts = <<>> THEN acc
    ELSE LET m == calculate_trading_score(Head(ts))
         IN  IF m # <<>> /\ m[1].address \notin seen_addresses
             THEN ProcessLoop(Tail(ts), seen_addresses \cup {m[1].address}, Append(acc, m[1]))
             ELSE ProcessLoop(Tail(ts), seen_addresses, acc)

DedupeTraders(ts) == ProcessLoop(ts, {}, <<>>)

\* a sort that puts x in front of the elements whose key equals its own
RECURSIVE InsertByScore_BeforeEqual(_, _)
InsertByScore_BeforeEqual(sorted, x) ==
    IF sorted = <<>> THEN <<x>>
    ELSE IF RLt(x.trading_score, Head(sorted).trading_score)
         THEN <<Head(sorted)>> \o InsertByScore_BeforeEqual(Tail(sorted), x)
         ELSE <<x>> \o sorted

RECURSIVE SortByTradingScore_TiesReversed(_)
SortByTradingScore_TiesReversed(ms) ==
    IF ms = <<>> THEN <<>>
    ELSE InsertByScore_BeforeEqual(
             SortByTradingScore_TiesReversed(SubSeq(ms, 1, Len(ms) - 1)), ms[Len(ms)])

\* line 245: list.sort(key=trading_score, reverse=True), descending and stable
RECURSIVE InsertByScore(_, _)
InsertByScore(sorted, x) ==
    IF sorted = <<>> THEN <<x>>
    ELSE IF RLe(x.trading_score, Head(sorted).trading_score)
         THEN <<Head(sorted)>> \o InsertByScore(Tail(sorted), x)
         ELSE <<x>> \o sorted

RECURSIVE SortByTradingScore(_)
SortByTradingScore(ms) ==
    IF ms = <<>> THEN <<>>
    ELSE InsertByScore(SortByTradingScore(SubSeq(ms, 1, Len(ms) - 1)), ms[Len(ms)])

\* lines 259-262 with the length test dropped
IsQualified_AnyHoldings(t) ==
    /\ ~t.top_holdings.is_none
    /\ t.top_holdings.items # <<>>

\* lines 259-262: the test of the qualified_traders comprehension
IsQualified(t) ==
    /\ ~t.top_holdings.is_none
    /\ t.top_holdings.items # <<>>
    /\ Len(t.top_holdings.items) >= MIN_SIGNIFICANT_HOLDINGS

QualifiedTraders(ps) == SelectSeq(ps, IsQualified)

FirstN(s, n) == SubSeq(s, 1, IF Len(s) < n THEN Len(s) ELSE n)

\* lines 270-282: one CSV row
SnapshotRow(t) ==
    [Wallet           |-> t.address,
     PnL              |-> t.pnl,
     Volume           |-> t.volume,
     Trade_Count      |-> t.trade_count,
     Efficiency_Score |-> t.efficiency_score,
     Trading_Score    |-> t.trading_score,
     Top_Holdings     |-> FirstN(t.top_holdings.items, 5)]

SnapshotRows(ts) == [k \in 1..Len(ts) |-> SnapshotRow(ts[k])]

Trader(a, p, v, c) == [address |-> a, pnl |-> p, volume |-> v, trade_count |-> c]

\* upstream records: two that tie, a repeat of an address with other
\* numbers, a loser at the bot threshold, an inactive one and a bot
TraderPool ==
    { Trader("A", 2000000, 10000000, 10),
      Trader("A", 20000, 100000, 1),
      Trader("B", 2000000, 10000000, 10),
      Trader("B", -50000, 100000, BOT_TRANSACTION_THRESHOLD),
      Trader("B", 2000000, 10000000, 0),
      Trader("A", 2000000, 10000000, BOT_TRANSACTION_THRESHOLD + 1) }

TraderLists == SeqsUpTo(TraderPool, MaxTraders)

\* line 232: get_top_traders returns the records of the pages it fetched
MainGetTopTraders ==
    /\ main_pc = "start"
    /\ traders' \in TraderLists
    /\ main_pc' = "process"
    /\ UNCHANGED <<processed_traders, idx, holdVars, snapshot>>

\* lines 236-245
MainProcess ==
    /\ main_pc = "process"
    /\ processed_traders' = SortByTradingScore(DedupeTraders(traders))
    /\ idx' = 1
    /\ main_pc' = "holdings"
    /\ UNCHANGED <<traders, holdVars, snapshot>>

\* line 253, the call
MainCallHoldings ==
    /\ main_pc = "holdings"
    /\ idx <= Len(processed_traders)
    /\ get_wallet_holdings_call(processed_traders[idx].address)
    /\ UNCHANGED <<calls, mainVars, snapshot>>

\* line 253, the assignment; get_wallet_holdings raises nothing, so the
\* except of line 254 is never entered
MainAttachHoldings ==
    /\ main_pc = "holdings"
    /\ gw_pc = "done"
    /\ processed_traders' = [processed_traders EXCEPT ![idx].top_holdings = gw_ret]
    /\ idx' = idx + 1
    /\ gw_pc' = "idle"
    /\ NoAttemptYet
    /\ UNCHANGED <<main_pc, traders, snapshot>>
    /\ UNCHANGED <<chain, holdings_cache, backoff_time, since_reset, gw_wallet, retry_count, gw_ret, calls>>

\* lines 259-287
MainSave ==
    /\ main_pc = "holdings"
    /\ gw_pc = "idle"
    /\ idx > Len(processed_traders)
    /\ snapshot' = File(SnapshotRows(QualifiedTraders(processed_traders)))
    /\ main_pc' = "done"
    /\ UNCHANGED <<traders, processed_traders, idx, holdVars>>

InitMain ==
    /\ main_pc = "start"
    /\ traders = <<>>
    /\ processed_traders = <<>>
    /\ idx = 0
    /\ chain \in Chains
    /\ AnalyzerInit
    /\ ScorerIdle /\ FormatIdle
    /\ TradersIdle
    /\ snapshot = NoFile /\ LedgerInit

mainFrame == <<scorerVars, formatVars, traderVars, ledgerVars>>

NextMain ==
    \/ MainGetTopTraders /\ UNCHANGED mainFrame
    \/ MainProcess /\ UNCHANGED mainFrame
    \/ MainCallHoldings /\ UNCHANGED mainFrame
    \/ HoldingsRateLimited /\ UNCHANGED <<mainVars, snapshot, mainFrame>>
    \/ HoldingsException /\ UNCHANGED <<mainVars, snapshot, mainFrame>>
    \/ HoldingsStatusError /\ UNCHANGED <<mainVars, snapshot, mainFrame>>
    \/ HoldingsSuccessFalse /\ UNCHANGED <<mainVars, snapshot, mainFrame>>
    \/ HoldingsSuccess /\ UNCHANGED <<mainVars, snapshot, mainFrame>>
    \/ MainAttachHoldings /\ UNCHANGED mainFrame
    \/ MainSave /\ UNCHANGED mainFrame

SpecMain == InitMain /\ [][NextMain]_vars

(***************************************************************************)
(* wallet_score_manager.update_scores                                      *)
(***************************************************************************)
\* line 76 against a frame that misses the row appended last
LedgerWallets_ButLast(rows) == {rows[k].Wallet_Address : k \in 1..(Len(rows) - 1)}

LedgerWallets(rows) == {rows[k].Wallet_Address : k \in 1..Len(rows)}

\* .loc[Wallet_Address == wallet, ...].iloc[0]: the first matching row
FirstRow(rows, wallet) ==
    rows[CHOOSE k \in 1..Len(rows) :
            /\ rows[k].Wallet_Address = wallet
            /\ \A j \in 1..(k - 1) : rows[j].Wallet_Address # wallet]

\* line 80 with the weights exchanged
Blend_WeightsSwapped(hist_score, current_score) ==
    RAdd(RMul(hist_score, Rat(3, 10)), RMul(current_score, Rat(7, 10)))

\* line 80: new_score = (hist_score * 0.7) + (current_score * 0.3)
Blend(hist_score, current_score) ==
    RAdd(RMul(hist_score, Rat(7, 10)), RMul(current_score, Rat(3, 10)))

\* line 83
ScoreChangePct(hist_score, new_score) ==
    IF RLt(RInt(0), hist_score)
    THEN RMul(RDiv(RSub(new_score, hist_score), hist_score), RInt(100))
    ELSE RInt(100)

\* lines 93-94: .loc[Wallet_Address == wallet, ...] = ..., on every matching row
SetScore(rows, wallet, new_score, appearances) ==
    [k \in 1..Len(rows) |->
        IF rows[k].Wallet_Address = wallet
        THEN [rows[k] EXCEPT !.composite_score = new_score, !.appearances = appearances]
        ELSE rows[k]]

\* lines 98-104 with the first score blended against an absent history
AddWallet_Discounted(rows, wallet, current_score, day) ==
    Append(rows, [Wallet_Address  |-> wallet,
                  composite_score |-> RMul(current_score, Rat(3, 10)),
                  appearances     |-> 1,
                  last_seen       |-> day])

\* lines 98-104 with the new row taking the frame's place
AddWallet_Replacing(rows, wallet, current_score, day) ==
    << [Wallet_Address  |-> wallet,
        composite_score |-> current_score,
        appearances     |-> 1,
        last_seen       |-> day] >>

\* lines 98-104: pd.concat of the frame and the new row
AddWallet(rows, wallet, current_score, day) ==
    Append(rows, [Wallet_Address  |-> wallet,
                  composite_score |-> current_score,
                  appearances     |-> 1,
                  last_seen       |-> day])

\* lines 72-105: the loop over the snapshot's rows; the result is the frame
\* and the significant changes
RECURSIVE UpdateLoop(_, _, _, _)
UpdateLoop(current, rows, changes, day) ==
    IF current = <<>> THEN [rows |-> rows, changes |-> changes]
    ELSE LET wallet == Head(current).Wallet
             current_score == Head(current).Trading_Score
         IN  IF wallet \in LedgerWallets(rows)
             THEN LET hist_score == FirstRow(rows, wallet).composite_score
                      appearances == FirstRow(rows, wallet).appearances + 1
                      new_score == Blend(hist_score, current_score)
                      pct == ScoreChangePct(hist_score, new_score)
                      change == [wallet |-> wallet, old_score |-> hist_score,
                                 new_score |-> new_score, change_pct |-> pct]
                  IN  UpdateLoop(Tail(current),
                                 SetScore(rows, wallet, new_score, appearances),
                                 IF RLt(RInt(20), RAbs(pct)) THEN Append(changes, change)
                                                              ELSE changes,
                                 day)
             ELSE UpdateLoop(Tail(current),
                             AddWallet(rows, wallet, current_score, day),
                             changes, day)

\* lines 108-109: last_seen of the wallets of the snapshot
TouchLastSeen(rows, current, day) ==
    LET current_wallets == {current[k].Wallet : k \in 1..Len(current)}
    IN  [k \in 1..Len(rows) |->
            IF rows[k].Wallet_Address \in current_wallets
            THEN [rows[k] EXCEPT !.last_seen = day]
            ELSE rows[k]]

\* line 112: sort_values('composite_score', ascending=False); the default
\* sort is not stable, so rows of equal score come out in any order
SortedByComposite(rows) ==
    LET n == Len(rows)
        perms == {p \in [1..n -> 1..n] : \A a, b \in 1..n : a # b => p[a] # p[b]}
    IN  { [k \in 1..n |-> rows[p[k]]] : p \in
            {q \in perms : \A k \in 1..(n - 1) :
                RLe(rows[q[k + 1]].composite_score, rows[q[k]].composite_score)} }

TopN == 300

\* lines 35-55 on the lines 150-151: the top-N projection
format_for_crystalized(rows) ==
    [k \in 1..Len(rows) |->
        [Appearances    |-> rows[k].appearances,
         Wallet_Address |-> rows[k].Wallet_Address,
         score          |-> rows[k].composite_score]]

\* the pass on the snapshot file `snap`, on day `day`
UpdateScoresFrom(snap, day) ==
    IF ~snap.exists
    THEN \* load_latest_analysis raises FileNotFoundError (line 30)
         /\ upd_result' = "FileNotFoundError"
         /\ significant_changes' = <<>>
         /\ UNCHANGED <<ledger, crystalized>>
    ELSE IF snap.rows = <<>>
    THEN \* main wrote a frame without columns; pd.read_csv raises EmptyDataError (line 33)
         /\ upd_result' = "EmptyDataError"
         /\ significant_changes' = <<>>
         /\ UNCHANGED <<ledger, crystalized>>
    ELSE LET loop == UpdateLoop(snap.rows, ledger.rows, <<>>, day)
             touched == TouchLastSeen(loop.rows, snap.rows, day)
         IN  \E sorted \in SortedByComposite(touched) :
                /\ ledger' = File(sorted)
                /\ crystalized' = File(format_for_crystalized(FirstN(sorted, TopN)))
                /\ significant_changes' = loop.changes
                /\ upd_result' = "ok"

\* wallet_score_manager.main, run on the file as it is
UpdateScores ==
    /\ runs < MaxRuns
    /\ runs' = runs + 1
    /\ today' = today + 1
    /\ UpdateScoresFrom(snapshot, today + 1)
    /\ UNCHANGED snapshot

LedgerWalletNames == {"A", "B"}

ScoreValues == {RInt(0), RInt(50), RInt(80), RInt(90)}

\* what main can leave in the snapshot file, in the columns update_scores
\* reads: distinct wallets, scores not increasing
SnapshotFiles ==
    { s \in SeqsUpTo([Wallet : LedgerWalletNames, Trading_Score : ScoreValues],
                     Cardinality(LedgerWalletNames)) :
        /\ \A a, b \in 1..Len(s) : a # b => s[a].Wallet # s[b].Wallet
        /\ \A k \in 1..(Len(s) - 1) : RLe(s[k + 1].Trading_Score, s[k].Trading_Score) }

\* run_analysis: the analyzer's main rewrites the snapshot, then the pass
RunAnalysis ==
    /\ runs < MaxRuns
    /\ runs' = runs + 1
    /\ today' = today + 1
    /\ \E s \in SnapshotFiles :
          /\ snapshot' = File(s)
          /\ UpdateScoresFrom(File(s), today + 1)

InitLedger ==
    /\ snapshot = NoFile
    /\ LedgerInit
    /\ ScorerIdle /\ FormatIdle /\ MainIdle
    /\ TradersIdle
    /\ chain \in {[w \in Wallets |-> <<>>]} /\ AnalyzerInit

ledgerFrame == <<scorerVars, formatVars, holdVars, traderVars, mainVars>>

NextLedger ==
    \/ UpdateScores /\ UNCHANGED ledgerFrame
    \/ RunAnalysis /\ UNCHANGED ledgerFrame

SpecLedger == InitLedger /\ [][NextLedger]_vars

(***************************************************************************)
(* Properties of update_scores, under SpecLedger.                          *)
(***************************************************************************)
\* a step that is a pass which ran to its end; the file it read is snapshot'
PassCompleted == runs' = runs + 1 /\ upd_result' = "ok"

RowsOf(rows, wallet) == {rows[k] : k \in {j \in 1..Len(rows) : rows[j].Wallet_Address = wallet}}

\* 0.7 * s0 + 0.3 * s1
SeventyThirty(s0, s1) == Rat(7 * s0.n * s1.d + 3 * s1.n * s0.d, 10 * s0.d * s1.d)

\* C1: a pass leaves every wallet of the snapshot that had a ledger record
\* (score S0, appearances n) with score 0.7*S0 + 0.3*S1 and appearances n + 1,
\* S1 being the row's Trading_Score.
C1_BlendExisting ==
    [][PassCompleted =>
        \A k \in 1..Len(snapshot'.rows) :
            LET w == snapshot'.rows[k].Wallet
                s1 == snapshot'.rows[k].Trading_Score
            IN  \A old \in RowsOf(ledger.rows, w) :
                    /\ RowsOf(ledger'.rows, w) # {}
                    /\ \A new \in RowsOf(ledger'.rows, w) :
                          /\ new.composite_score = SeventyThirty(old.composite_score, s1)
                          /\ new.appearances = old.appearances + 1]_vars

\* the scenario of C1: A at 50 with two appearances met 90, and stands at 62 with three
C1_Witness ==
    /\ upd_result = "ok"
    /\ \E k \in 1..Len(snapshot.rows) :
          snapshot.rows[k] = [Wallet |-> "A", Trading_Score |-> RInt(90)]
    /\ \E k \in 1..Len(ledger.rows) :
          /\ ledger.rows[k].Wallet_Address = "A"
          /\ ledger.rows[k].composite_score = RInt(62)
          /\ ledger.rows[k].appearances = 3

\* C2: a pass gives every wallet of the snapshot that had no ledger record
\* one record with appearances 1 and the row's Trading_Score as its score;
\* from an empty ledger, the snapshot [A: 80] leaves the ledger [A, 80, 1].
C2_InsertNew ==
    [][PassCompleted =>
        /\ \A k \in 1..Len(snapshot'.rows) :
              LET w == snapshot'.rows[k].Wallet
                  s1 == snapshot'.rows[k].Trading_Score
              IN  RowsOf(ledger.rows, w) = {} =>
                      /\ RowsOf(ledger'.rows, w) # {}
                      /\ \A new \in RowsOf(ledger'.rows, w) :
                            new.composite_score = s1 /\ new.appearances = 1
        /\ (ledger.rows = <<>> /\ snapshot'.rows = <<[Wallet |-> "A", Trading_Score |-> RInt(80)]>>)
              => /\ Len(ledger'.rows) = 1
                 /\ ledger'.rows[1].Wallet_Address = "A"
                 /\ ledger'.rows[1].composite_score = RInt(80)
                 /\ ledger'.rows[1].appearances = 1]_vars

\* the scenario of C2, after the first pass
C2_Witness ==
    /\ upd_result = "ok"
    /\ runs = 1
    /\ snapshot.rows = <<[Wallet |-> "A", Trading_Score |-> RInt(80)]>>
    /\ Len(ledger.rows) = 1
    /\ ledger.rows[1].composite_score = RInt(80)
    /\ ledger.rows[1].appearances = 1

\* C3: no step removes a wallet from the persisted ledger, and the ledger
\* file, once written, stays.
C3_LedgerOnlyGrows ==
    [][/\ LedgerWallets(ledger.rows) \subseteq LedgerWallets(ledger'.rows)
       /\ ledger.exists => ledger'.exists]_vars

\* a wallet that the latest pass did not see is still in the ledger, beside
\* one that pass added
C3_Witness ==
    /\ upd_result = "ok"
    /\ runs >= 2
    /\ \E a, b \in 1..Len(ledger.rows) :
          /\ ledger.rows[a].last_seen < today
          /\ ledger.rows[b].last_seen = today
          /\ ledger.rows[b].appearances = 1

(***************************************************************************)
(* Properties of calculate_trading_score, under SpecScorer.                *)
(***************************************************************************)
InRange(x) == RLe(RInt(0), x) /\ RLe(x, RInt(100))

\* C4: for every record the scorer accepts, efficiency_score, pnl_score and
\* activity_score lie in [0, 100], and trading_score is
\* 0.33*efficiency + 0.33*pnl + 0.34*activity and lies in [0, 100].
C4_ScoresInRange ==
    (scorer_pc = "returned" /\ metrics # <<>>) =>
        /\ InRange(score_locals[1].efficiency_score)
        /\ InRange(score_locals[1].pnl_score)
        /\ InRange(score_locals[1].activity_score)
        /\ InRange(metrics[1].trading_score)
        /\ metrics[1].trading_score =
              RAdd(RAdd(RMul(score_locals[1].efficiency_score, Rat(33, 100)),
                        RMul(score_locals[1].pnl_score, Rat(33, 100))),
                   RMul(score_locals[1].activity_score, Rat(34, 100)))

(***************************************************************************)
(* Properties of main, under SpecMain.                                     *)
(***************************************************************************)
Accepted(td) == td.trade_count >= 1 /\ td.trade_count <= BOT_TRANSACTION_THRESHOLD

\* traders[k] is the first record of its address that the scorer accepts
IsFirstAccepted(ts, k) ==
    /\ Accepted(ts[k])
    /\ \A j \in 1..(k - 1) : ~(ts[j].address = ts[k].address /\ Accepted(ts[j]))

Processed == main_pc \in {"holdings", "done"}

SameRecord(m, td) ==
    /\ m.address = td.address
    /\ m.pnl = td.pnl
    /\ m.volume = td.volume
    /\ m.trade_count = td.trade_count

\* C5: a record with trade_count 0 or above BOT_TRANSACTION_THRESHOLD gets
\* no metrics and a record with 1 <= trade_count <= BOT_TRANSACTION_THRESHOLD
\* gets metrics: the processed list holds accepted records only and an entry
\* for every address that has an accepted record, and every snapshot row is
\* an accepted record.
C5_RejectsBotsAndInactive ==
    /\ Processed =>
          /\ \A k \in 1..Len(processed_traders) :
                /\ Accepted(processed_traders[k])
                /\ \E j \in 1..Len(traders) :
                      Accepted(traders[j]) /\ SameRecord(processed_traders[k], traders[j])
          /\ \A j \in 1..Len(traders) :
                Accepted(traders[j]) =>
                    \E k \in 1..Len(processed_traders) :
                        processed_traders[k].address = traders[j].address
    /\ main_pc = "done" =>
          \A r \in 1..Len(snapshot.rows) :
              /\ snapshot.rows[r].Trade_Count >= 1
              /\ snapshot.rows[r].Trade_Count <= BOT_TRANSACTION_THRESHOLD

\* an inactive record and a bot were fetched beside an accepted one, which is emitted
C5_Witness ==
    /\ main_pc = "done"
    /\ snapshot.rows # <<>>
    /\ \E i, j \in 1..Len(traders) :
          /\ traders[i].trade_count = 0
          /\ traders[j].trade_count > BOT_TRANSACTION_THRESHOLD

\* C6: the processed list holds each address at most once, with the numbers
\* of the first record of that address, in fetch order, that the scorer
\* accepted; so does the snapshot.
C6_FirstOccurrenceWins ==
    /\ Processed =>
          /\ \A a, b \in 1..Len(processed_traders) :
                a # b => processed_traders[a].address # processed_traders[b].address
          /\ \A k \in 1..Len(processed_traders) :
                \E j \in 1..Len(traders) :
                    IsFirstAccepted(traders, j) /\ SameRecord(processed_traders[k], traders[j])
    /\ main_pc = "done" =>
          /\ \A a, b \in 1..Len(snapshot.rows) :
                a # b => snapshot.rows[a].Wallet # snapshot.rows[b].Wallet
          /\ \A r \in 1..Len(snapshot.rows) :
                \E j \in 1..Len(traders) :
                    /\ IsFirstAccepted(traders, j)
                    /\ snapshot.rows[r].Wallet = traders[j].address
                    /\ snapshot.rows[r].PnL = traders[j].pnl
                    /\ snapshot.rows[r].Trade_Count = traders[j].trade_count

\* an address was fetched twice with other numbers, both times acceptable,
\* and is emitted
C6_Witness ==
    /\ main_pc = "done"
    /\ \E i, j \in 1..Len(traders) :
          /\ i < j
          /\ traders[i].address = traders[j].address
          /\ Accepted(traders[i]) /\ Accepted(traders[j])
          /\ traders[i].pnl # traders[j].pnl
          /\ \E r \in 1..Len(snapshot.rows) : snapshot.rows[r].Wallet = traders[i].address

\* C7: the snapshot is in non-increasing order of trading_score, two traders
\* of equal score stand in the order in which they were fetched, and the
\* holdings filter keeps the order of the sorted list.
C7_StableDescendingOrder ==
    /\ Processed =>
          \A a, b \in 1..Len(processed_traders) :
              a < b =>
                  /\ RLe(processed_traders[b].trading_score, processed_traders[a].trading_score)
                  /\ processed_traders[a].trading_score = processed_traders[b].trading_score =>
                        \E i, j \in 1..Len(traders) :
                            /\ i < j
                            /\ IsFirstAccepted(traders, i) /\ IsFirstAccepted(traders, j)
                            /\ traders[i].address = processed_traders[a].address
                            /\ traders[j].address = processed_traders[b].address
    /\ main_pc = "done" =>
          \A a, b \in 1..Len(snapshot.rows) :
              a < b =>
                  /\ RLe(snapshot.rows[b].Trading_Score, snapshot.rows[a].Trading_Score)
                  /\ \E i, j \in 1..Len(processed_traders) :
                        /\ i < j
                        /\ processed_traders[i].address = snapshot.rows[a].Wallet
                        /\ processed_traders[j].address = snapshot.rows[b].Wallet

\* two traders of equal score, fetched B then A, are both emitted
C7_Witness ==
    /\ main_pc = "done"
    /\ Len(snapshot.rows) = 2
    /\ snapshot.rows[1].Wallet = "B"
    /\ snapshot.rows[2].Wallet = "A"
    /\ snapshot.rows[1].Trading_Score = snapshot.rows[2].Trading_Score

SnapshotWallets == {snapshot.rows[r].Wallet : r \in 1..Len(snapshot.rows)}

\* C8: every emitted trader has at least MIN_SIGNIFICANT_HOLDINGS formatted
\* holdings; a trader whose fetch gave nothing or fewer is not emitted.
C8_EmittedHaveHoldings ==
    main_pc = "done" =>
        /\ \A k \in 1..Len(processed_traders) :
              processed_traders[k].address \in SnapshotWallets =>
                  /\ ~processed_traders[k].top_holdings.is_none
                  /\ Len(processed_traders[k].top_holdings.items) >= MIN_SIGNIFICANT_HOLDINGS
        /\ \A r \in 1..Len(snapshot.rows) :
              Len(snapshot.rows[r].Top_Holdings) >= MIN_SIGNIFICANT_HOLDINGS

\* one trader is emitted, another has one holding only and is not
C8_Witness ==
    /\ main_pc = "done"
    /\ snapshot.rows # <<>>
    /\ \E k \in 1..Len(processed_traders) :
          /\ Len(processed_traders[k].top_holdings.items) = 1
          /\ processed_traders[k].address \notin SnapshotWallets

(***************************************************************************)
(* Properties of get_wallet_holdings.                                      *)
(***************************************************************************)
KeptByClaim(h) ==
    /\ h.valueUsd >= SIGNIFICANT_HOLDING_THRESHOLD
    /\ h.symbol # ""
    /\ h.symbol \notin {"SOL", "USDC"}

\* C9: the formatted list has one entry per holding of the response with
\* valueUsd >= SIGNIFICANT_HOLDING_THRESHOLD, a symbol, and a symbol other
\* than SOL and USDC, and none for any other holding; the entries are in
\* descending order of valueUsd.  (SpecFormat)
C9_OnlySignificantSorted ==
    fmt_pc = "formatted" =>
        /\ Len(formatted_holdings) = Len(significant_holdings)
        /\ Len(significant_holdings) =
              Cardinality({k \in 1..Len(holdings) : KeptByClaim(holdings[k])})
        /\ \A k \in 1..Len(significant_holdings) :
              /\ KeptByClaim(significant_holdings[k])
              /\ \E j \in 1..Len(holdings) : holdings[j] = significant_holdings[k]
              /\ formatted_holdings[k].symbol = significant_holdings[k].symbol
              /\ formatted_holdings[k].hundredths * 10000 - 5000 <= significant_holdings[k].valueUsd
              /\ significant_holdings[k].valueUsd < formatted_holdings[k].hundredths * 10000 + 5000
        /\ \A a, b \in 1..Len(significant_holdings) :
              a < b => significant_holdings[a].valueUsd >= significant_holdings[b].valueUsd

\* a response with SOL in it and two significant holdings, the smaller first
C9_Witness ==
    /\ fmt_pc = "formatted"
    /\ holdings = <<Holding("ABC", 9000), Holding("SOL", 20000), Holding("XYZ", 15000000)>>
    /\ formatted_holdings = <<[symbol |-> "XYZ", hundredths |-> 1500],
                              [symbol |-> "ABC", hundredths |-> 1]>>

\* C10: get_wallet_holdings returns a sequence on every path.  (SpecHoldings)
C10_AlwaysReturnsSequence ==
    gw_pc = "done" => ~gw_ret.is_none

(***************************************************************************)
(* Properties of the holdings cache, under SpecHoldings.                   *)
(***************************************************************************)
\* a step that sends a request upstream
SendsRequest == requests' = requests + 1

\* C11: once holdings_cache has an entry for w, no step removes or changes
\* it, a call for w returns the entry at once, and no request is sent
\* upstream for w.
C11_HoldingsMemoized ==
    [][/\ \A w \in DOMAIN holdings_cache :
             /\ w \in DOMAIN holdings_cache'
             /\ holdings_cache'[w] = holdings_cache[w]
       /\ (gw_pc = "idle" /\ gw_pc' # "idle" /\ gw_wallet' \in DOMAIN holdings_cache) =>
             /\ gw_pc' = "done"
             /\ gw_ret' = ListValue(holdings_cache[gw_wallet'])
             /\ requests' = 0
       /\ SendsRequest => gw_wallet \notin DOMAIN holdings_cache]_vars

\* the second call, for the wallet of the first, answered from the cache
C11_Witness ==
    /\ calls = 2
    /\ gw_pc = "done"
    /\ requests = 0
    /\ gw_wallet \in DOMAIN holdings_cache
    /\ holdings_cache[gw_wallet] # <<>>
    /\ gw_ret = ListValue(holdings_cache[gw_wallet])

(***************************************************************************)
(* The pass on wallets it does not see, under SpecLedger.                  *)
(***************************************************************************)
\* a step that is a pass, however it ended
PassStarted == runs' = runs + 1

\* the records of the wallets that are not in the snapshot keep their
\* composite_score, appearances and last_seen
UntouchedKept ==
    \A w \in LedgerWallets(ledger.rows) \ {snapshot'.rows[k].Wallet : k \in 1..Len(snapshot'.rows)} :
        \A old \in RowsOf(ledger.rows, w) :
            \E new \in RowsOf(ledger'.rows, w) :
                /\ new.composite_score = old.composite_score
                /\ new.appearances = old.appearances
                /\ new.last_seen = old.last_seen

\* C12: a pass on an empty snapshot and an existing ledger runs to its end,
\* and every pass leaves the records of the wallets that are not in its
\* snapshot unchanged in composite_score, appearances and last_seen.
C12_EmptySnapshotCompletes ==
    [][(PassStarted /\ ledger.exists /\ snapshot'.exists) =>
          /\ snapshot'.rows = <<>> => upd_result' = "ok"
          /\ UntouchedKept]_vars

(***************************************************************************)
(* update_scores on snapshots that carry the scores of losing traders:     *)
(* calculate_trading_score has no lower clamp, so Trading_Score, and with  *)
(* it composite_score, can be negative.                                    *)
(***************************************************************************)
SignedScoreValues == {RInt(-20), RInt(0), RInt(10), RInt(30)}

SignedSnapshotFiles ==
    { s \in SeqsUpTo([Wallet : LedgerWalletNames, Trading_Score : SignedScoreValues],
                     Cardinality(LedgerWalletNames)) :
        /\ \A a, b \in 1..Len(s) : a # b => s[a].Wallet # s[b].Wallet
        /\ \A k \in 1..(Len(s) - 1) : RLe(s[k + 1].Trading_Score, s[k].Trading_Score) }

\* run_analysis on a market with losing traders
RunAnalysisSigned ==
    /\ runs < MaxRuns
    /\ runs' = runs + 1
    /\ today' = today + 1
    /\ \E s \in SignedSnapshotFiles :
          /\ snapshot' = File(s)
          /\ UpdateScoresFrom(File(s), today + 1)

NextLedgerSigned ==
    \/ UpdateScores /\ UNCHANGED ledgerFrame
    \/ RunAnalysisSigned /\ UNCHANGED ledgerFrame

SpecLedgerSigned == InitLedger /\ [][NextLedgerSigned]_vars

\* the wallets of the events the latest pass recorded
EventWallets(changes) == {changes[j].wallet : j \in 1..Len(changes)}

\* |new - old| / old > 20%, or old = 0
SignificantByClaim(old_score, new_score) ==
    \/ old_score = RInt(0)
    \/ /\ old_score # RInt(0)
       /\ RLt(Rat(20, 100), RDiv(RAbs(RSub(new_score, old_score)), old_score))

\* C13: a pass records an event for a wallet it blended exactly when
\* |new - old| / old > 20% or old = 0, and none for a wallet it inserted.
C13_SignificantChangeEvents ==
    [][PassCompleted =>
        \A k \in 1..Len(snapshot'.rows) :
            LET w == snapshot'.rows[k].Wallet
            IN  IF RowsOf(ledger.rows, w) = {}
                THEN w \notin EventWallets(significant_changes')
                ELSE \A old \in RowsOf(ledger.rows, w) :
                        \A new \in RowsOf(ledger'.rows, w) :
                            (w \in EventWallets(significant_changes'))
                                <=> SignificantByClaim(old.composite_score, new.composite_score)]_vars

(***************************************************************************)
(* run_analysis.run_analysis, stage by stage, and wallet_score_manager     *)
(* run on its own, on a deployment whose historical/ directory may be      *)
(* there already.                                                          *)
(***************************************************************************)
\* a ledger a former deployment left, as update_scores saves it
FormerLedger ==
    File(<< [Wallet_Address |-> "A", composite_score |-> RInt(80),
             appearances |-> 2, last_seen |-> 0] >>)

\* what stage 1 may write
PipelineSnapshots ==
    { <<>>,
      << [Wallet |-> "A", Trading_Score |-> RInt(90)] >>,
      << [Wallet |-> "B", Trading_Score |-> RInt(80)], [Wallet |-> "A", Trading_Score |-> RInt(50)] >> }

\* lines 29-31 of run_analysis with the second stage run all the same
AfterMainRaised_StillReconciles(day) ==
    UpdateScoresFrom(snapshot, day)

\* lines 29-31 of run_analysis: wallet_holdings_analyzer.main raised, the
\* except logs and exits; wallet_score_manager.main is not called
AfterMainRaised(day) ==
    /\ upd_result' = "NotRun"
    /\ significant_changes' = <<>>
    /\ UNCHANGED <<ledger, crystalized>>

\* lines 13-31 of run_analysis
RunAnalysisStages ==
    /\ runs < MaxRuns
    /\ runs' = runs + 1
    /\ today' = today + 1
    /\ \/ /\ main_pc' = "raised"
          /\ UNCHANGED snapshot
          /\ AfterMainRaised(today + 1)
       \/ /\ main_pc' = "done"
          /\ \E s \in PipelineSnapshots :
                /\ snapshot' = File(s)
                /\ UpdateScoresFrom(File(s), today + 1)
    /\ UNCHANGED <<traders, processed_traders, idx>>

\* python wallet_score_manager.py: the analyzer is not part of the process
UpdateScoresAlone ==
    /\ UpdateScores
    /\ main_pc' = "idle"
    /\ UNCHANGED <<traders, processed_traders, idx>>

InitPipeline ==
    /\ snapshot = NoFile
    /\ ledger \in {NoFile, FormerLedger}
    /\ crystalized = IF ledger.exists THEN File(format_for_crystalized(ledger.rows)) ELSE NoFile
    /\ today = 0
    /\ runs = 0
    /\ upd_result = "none"
    /\ significant_changes = <<>>
    /\ ScorerIdle /\ FormatIdle /\ MainIdle
    /\ TradersIdle
    /\ chain \in {[w \in Wallets |-> <<>>]} /\ AnalyzerInit

pipelineFrame == <<scorerVars, formatVars, holdVars, traderVars>>

NextPipeline ==
    \/ RunAnalysisStages /\ UNCHANGED pipelineFrame
    \/ UpdateScoresAlone /\ UNCHANGED pipelineFrame

SpecPipeline == InitPipeline /\ [][NextPipeline]_vars

\* a step that is one run of either script
ScriptRan == runs' = runs + 1

\* C14: a run that comes to reconciliation with no snapshot file ends in
\* FileNotFoundError with the ledger file and the top-N file as they were;
\* and a run of run_analysis reconciles only if stage 1 returned.
C14_MissingSnapshotStops ==
    [][ScriptRan =>
          /\ (~snapshot'.exists /\ upd_result' # "NotRun") =>
                /\ upd_result' = "FileNotFoundError"
                /\ ledger' = ledger
                /\ crystalized' = crystalized
          /\ main_pc' = "raised" =>
                /\ upd_result' = "NotRun"
                /\ ledger' = ledger
                /\ crystalized' = crystalized
                /\ snapshot' = snapshot]_vars

\* the score manager found a ledger and no snapshot, and left the ledger alone
C14_Witness ==
    /\ runs >= 1
    /\ upd_result = "FileNotFoundError"
    /\ ~snapshot.exists
    /\ ledger = FormerLedger
    /\ crystalized = File(format_for_crystalized(FormerLedger.rows))

(***************************************************************************)
(* WalletAnalyzer.get_top_traders, one HTTP attempt per step.  The         *)
(* upstream answers each attempt as it likes; `pages` keeps the batch of   *)
(* each 200/success answer and page_status how the loop left each page.    *)
(***************************************************************************)
\* the argument of get_top_traders
limit == PageSize * MaxPages

PageOf(o) == (o \div PageSize) + 1

\* items of one page: none, one record, two records
PageLists ==
    { <<>>,
      << Trader("A", 2000000, 10000000, 10) >>,
      << Trader("B", 2000000, 10000000, 10), Trader("A", 20000, 100000, 1) >> }

\* lines 66-69: the call, and the first turn of the for loop
get_top_traders_call ==
    /\ gt_pc = "idle"
    /\ limit > 0
    /\ gt_pc' = "loop"
    /\ traders' = <<>>
    /\ offset' = 0
    /\ retry_count' = 0
    /\ NoAttemptYet
    /\ pages' = [n \in PageNumbers |-> <<>>]
    /\ page_status' = [n \in PageNumbers |-> "pending"]
    /\ UNCHANGED <<backoff_time, since_reset>>

\* retry_count += 1, then the loop test of line 70
RetryOrLeavePage ==
    /\ retry_count' = retry_count + 1
    /\ IF retry_count + 1 < max_retries
       THEN gt_pc' = "loop" /\ page_status' = page_status
       ELSE gt_pc' = "between" /\ page_status' = [page_status EXCEPT ![PageOf(offset)] = "failed"]

\* lines 80-83: HTTP 429
TradersRateLimited ==
    /\ gt_pc = "loop"
    /\ backoff_time' = _handle_rate_limit(backoff_time)
    /\ since_reset' = since_reset + 1
    /\ Attempt(Response(429, FALSE), backoff_time')
    /\ RetryOrLeavePage
    /\ UNCHANGED <<traders, offset, pages>>

\* lines 103-106: requests.get or response.json() raised
TradersException ==
    /\ gt_pc = "loop"
    /\ Attempt(Raised, 1000)
    /\ RetryOrLeavePage
    /\ UNCHANGED <<traders, offset, pages, backoff_time, since_reset>>

\* lines 85-87: a status that is neither 200 nor 429; break
TradersStatusError ==
    /\ gt_pc = "loop"
    /\ \E status_code \in ErrorStatuses : Attempt(Response(status_code, FALSE), 0)
    /\ gt_pc' = "between"
    /\ page_status' = [page_status EXCEPT ![PageOf(offset)] = "failed"]
    /\ UNCHANGED <<traders, offset, pages, backoff_time, since_reset, retry_count>>

\* lines 89-92: a 200 whose body has no true "success"; break
TradersSuccessFalse ==
    /\ gt_pc = "loop"
    /\ Attempt(Response(200, FALSE), 0)
    /\ gt_pc' = "between"
    /\ page_status' = [page_status EXCEPT ![PageOf(offset)] = "failed"]
    /\ UNCHANGED <<traders, offset, pages, backoff_time, since_reset, retry_count>>

\* lines 94-101: a 200 with success true; an empty batch breaks before
\* the extend and before _reset_backoff
TradersSuccess ==
    /\ gt_pc = "loop"
    /\ Attempt(Response(200, TRUE), 0)
    /\ \E batch \in PageLists :
          /\ pages' = [pages EXCEPT ![PageOf(offset)] = batch]
          /\ IF batch = <<>>
             THEN UNCHANGED <<traders, backoff_time, since_reset>>
             ELSE /\ traders' = traders \o batch
                  /\ backoff_time' = min_call_interval
                  /\ since_reset' = 0
    /\ gt_pc' = "between"
    /\ page_status' = [page_status EXCEPT ![PageOf(offset)] = "fetched"]
    /\ UNCHANGED <<offset, retry_count>>

\* lines 108-109, then the next turn of the for loop (lines 68-69) or the
\* return of line 111
TradersNextOffset ==
    /\ gt_pc = "between"
    /\ IF offset + PageSize < limit
       THEN /\ offset' = offset + PageSize
            /\ retry_count' = 0
            /\ NoAttemptYet
            /\ gt_pc' = "loop"
       ELSE /\ gt_pc' = "done"
            /\ UNCHANGED <<offset, retry_count, response, requests, rate_limited, slept>>
    /\ UNCHANGED <<traders, pages, page_status, backoff_time, since_reset>>

\* the caller has the list; the frame of the call is gone
CallerTakesTraders ==
    /\ gt_pc = "done"
    /\ gt_pc' = "returned"
    /\ traders' = <<>>
    /\ offset' = 0
    /\ retry_count' = 0
    /\ NoAttemptYet
    /\ pages' = [n \in PageNumbers |-> <<>>]
    /\ page_status' = [n \in PageNumbers |-> "pending"]
    /\ UNCHANGED <<backoff_time, since_reset>>

(***************************************************************************)
(* The analyzer under a caller shaped like main: get_top_traders once,     *)
(* then get_wallet_holdings for one wallet after the other.                *)
(***************************************************************************)
\* one wallet with significant holdings, one with no tokens
AnalyzerChain ==
    [w \in Wallets |->
        IF w = "A"
        THEN <<Holding("ABC", 9000), Holding("DEF", 8999), Holding("XYZ", 15000000)>>
        ELSE <<>>]

InitAnalyzer ==
    /\ TradersIdle
    /\ chain = AnalyzerChain
    /\ AnalyzerInit
    /\ ScorerIdle /\ FormatIdle /\ MainIdle
    /\ snapshot = NoFile /\ LedgerInit

\* what no method of the analyzer touches
analyzerFrame ==
    <<scorerVars, formatVars, main_pc, processed_traders, idx, snapshot, ledgerVars>>

\* what get_top_traders leaves alone
tradersFrame == <<chain, holdings_cache, gw_pc, gw_wallet, gw_ret, calls, analyzerFrame>>

\* what get_wallet_holdings leaves alone
walletFrame == <<traderVars, traders, analyzerFrame>>

NextAnalyzer ==
    \/ get_top_traders_call /\ UNCHANGED tradersFrame
    \/ TradersRateLimited /\ UNCHANGED tradersFrame
    \/ TradersException /\ UNCHANGED tradersFrame
    \/ TradersStatusError /\ UNCHANGED tradersFrame
    \/ TradersSuccessFalse /\ UNCHANGED tradersFrame
    \/ TradersSuccess /\ UNCHANGED tradersFrame
    \/ TradersNextOffset /\ UNCHANGED tradersFrame
    \/ CallerTakesTraders /\ UNCHANGED tradersFrame
    \/ gt_pc = "returned" /\ CallerAsks /\ UNCHANGED walletFrame
    \/ HoldingsRateLimited /\ UNCHANGED walletFrame
    \/ HoldingsException /\ UNCHANGED walletFrame
    \/ HoldingsStatusError /\ UNCHANGED walletFrame
    \/ HoldingsSuccessFalse /\ UNCHANGED walletFrame
    \/ HoldingsSuccess /\ UNCHANGED walletFrame
    \/ CallerTakesResult /\ UNCHANGED walletFrame

SpecAnalyzer == InitAnalyzer /\ [][NextAnalyzer]_vars

\* the process is never suspended for good: a call in progress takes its next step
SpecAnalyzerFair == SpecAnalyzer /\ WF_vars(NextAnalyzer)

(***************************************************************************)
(* Properties of the fetch layer, under SpecAnalyzer.                      *)
(***************************************************************************)
\* get_top_traders is running or has just built its list
InTopTraders == gt_pc \in {"loop", "between", "done"}

\* C15: get_top_traders asks for offsets that are multiples of 10 below
\* the limit, and once a page came back with zero items it sends no
\* request for a later offset.
C15_StopsAtEmptyPage ==
    /\ InTopTraders => (offset % 10 = 0 /\ 0 <= offset /\ offset < limit)
    /\ \A n \in PageNumbers :
          (page_status[n] = "fetched" /\ pages[n] = <<>>) =>
              \A m \in PageNumbers :
                  m > n => /\ page_status[m] = "pending"
                           /\ ~(PageOf(offset) = m /\ requests > 0)

\* the batches of the pages fetched among the first n, in page order
RECURSIVE FetchedItems(_)
FetchedItems(n) ==
    IF n = 0 THEN <<>>
    ELSE FetchedItems(n - 1) \o (IF page_status[n] = "fetched" THEN pages[n] ELSE <<>>)

\* C16: no logical request (a page, a wallet) sends more than 3 HTTP
\* requests; every call of get_top_traders comes to its return; and at its
\* return every page has been tried and the list is the batches of the
\* fetched pages, in order, whatever happened to the pages between them.
C16_BoundedRetriesPartialData ==
    /\ [](requests <= 3)
    /\ [](gt_pc = "done" =>
             /\ \A n \in PageNumbers : page_status[n] # "pending"
             /\ traders = FetchedItems(MaxPages))
    /\ (gt_pc = "loop" ~> gt_pc = "done")

\* a page that used its three attempts, between two pages that were fetched
C16_Witness ==
    /\ gt_pc = "done"
    /\ page_status[1] = "fetched" /\ pages[1] # <<>>
    /\ page_status[2] = "failed"
    /\ page_status[MaxPages] = "fetched" /\ pages[MaxPages] # <<>>
    /\ traders = pages[1] \o pages[MaxPages]

\* the latest answer of the running call was HTTP 200 with success true
LastCallSucceeded == response.status_code = 200 /\ response.success

\* C17: after an answer of HTTP 200 with success true, with or without
\* items, in either method, backoff_time is min_call_interval.
C17_SuccessResetsBackoff ==
    LastCallSucceeded => backoff_time = min_call_interval

\* the unit of work in progress has ended without a successful answer
UnitGivenUp ==
    \/ gt_pc = "between" /\ page_status[PageOf(offset)] = "failed"
    \/ gw_pc = "done" /\ requests > 0 /\ ~LastCallSucceeded

\* network error, timeout, 5xx
TransientFailure(r) == r.raised \/ (r.status_code >= 500 /\ r.status_code <= 599)

\* success false, or a 4xx other than 429
FatalFailure(r) ==
    /\ ~r.raised
    /\ \/ r.status_code = 200 /\ ~r.success
       \/ r.status_code >= 400 /\ r.status_code <= 499 /\ r.status_code # 429

\* C18: a unit of work whose latest failure is transient is given up only
\* after 3 attempts; one given up with attempts to spare failed fatally.
C18_TransientRetriedFatalNot ==
    UnitGivenUp =>
        /\ TransientFailure(response) => requests = 3
        /\ requests < 3 => FatalFailure(response)

\* C19: an answer of 429 does not use up the retry allowance (retry_count
\* counts the other failures only), and a unit of work that met nothing
\* but 429 is not given up.
C19_RateLimitNotCounted ==
    /\ (gt_pc = "loop" \/ gw_pc = "loop") => retry_count <= requests - rate_limited
    /\ UnitGivenUp => rate_limited < requests

RECURSIVE Pow2(_)
Pow2(k) == IF k = 0 THEN 1 ELSE 2 * Pow2(k - 1)

\* a step in which the upstream answers 429
Answers429 == rate_limited' = rate_limited + 1

\* a step that begins the next logical request: the next offset, the next wallet
NextRequestBegins ==
    \/ gt_pc = "between" /\ gt_pc' = "loop"
    \/ gw_pc = "idle" /\ gw_pc' = "loop"

\* C20: a 429 doubles backoff_time and the client sleeps the doubled time;
\* backoff_time is min_call_interval * 2^k, k the number of 429 answers
\* since the latest reset, with no ceiling; and it is carried into the next
\* logical request unchanged.
C20_BackoffDoubles ==
    /\ [](backoff_time = min_call_interval * Pow2(since_reset))
    /\ [][Answers429 => (backoff_time' = 2 * backoff_time /\ slept' = backoff_time')]_vars
    /\ [][NextRequestBegins => backoff_time' = backoff_time]_vars

\* three 429s on one page and one more on the next: 0.5 s has become 8 s
C20_Witness ==
    /\ gt_pc = "loop"
    /\ offset = PageSize
    /\ rate_limited = 1
    /\ since_reset = 4
    /\ backoff_time = 16 * min_call_interval
    /\ slept = backoff_time

(***************************************************************************)
(* update_scores on snapshot files that may list an address twice (a file  *)
(* put together by hand, or by an analyzer without its seen_addresses      *)
(* test), from an empty ledger.                                            *)
(***************************************************************************)
\* one score: a repeated address is blended on every row after its first,
\* and blends of equal scores keep the decimals short
RepeatScoreValues == {RInt(80)}

\* rows in any order, addresses free to repeat
RepeatSnapshotFiles ==
    SeqsUpTo([Wallet : LedgerWalletNames, Trading_Score : RepeatScoreValues],
             Cardinality(LedgerWalletNames))

\* the snapshot is replaced, then the pass
RunAnalysisRepeats ==
    /\ runs < MaxRuns
    /\ runs' = runs + 1
    /\ today' = today + 1
    /\ \E s \in RepeatSnapshotFiles :
          /\ snapshot' = File(s)
          /\ UpdateScoresFrom(File(s), today + 1)

NextLedgerRepeats ==
    \/ UpdateScores /\ UNCHANGED ledgerFrame
    \/ RunAnalysisRepeats /\ UNCHANGED ledgerFrame

SpecLedgerRepeats == InitLedger /\ [][NextLedgerRepeats]_vars

\* C21: from an empty ledger, after any passes, no two ledger records have
\* the same address, every record has appearances >= 1, and every address
\* of the snapshot of a completed pass has its record.
C21_OneRecordPerWallet ==
    /\ \A a, b \in 1..Len(ledger.rows) :
          a # b => ledger.rows[a].Wallet_Address # ledger.rows[b].Wallet_Address
    /\ \A k \in 1..Len(ledger.rows) : ledger.rows[k].appearances >= 1
    /\ upd_result = "ok" =>
          \A k \in 1..Len(snapshot.rows) :
              \E j \in 1..Len(ledger.rows) : ledger.rows[j].Wallet_Address = snapshot.rows[k].Wallet

\* the first pass met A twice: one record, two appearances
C21_Witness ==
    /\ runs = 1
    /\ upd_result = "ok"
    /\ snapshot.rows = << [Wallet |-> "A", Trading_Score |-> RInt(80)],
                          [Wallet |-> "A", Trading_Score |-> RInt(80)] >>
    /\ Len(ledger.rows) = 1
    /\ ledger.rows[1].Wallet_Address = "A"
    /\ ledger.rows[1].composite_score = RInt(80)
    /\ ledger.rows[1].appearances = 2

====
